---- MODULE Spec2Model ----
(***************************************************************************)
(* Model of src/main.py: the emoji batch downloader.                       *)
(*                                                                         *)
(* Strings are sequences of one-character strings.  A character outside    *)
(* ASCII is written as its code point ("U+00E9" is e-acute, "U+1F600" is   *)
(* the grinning-face emoji).  A JSON value is a record [t, s, n]: t is     *)
(* "str", "num" or "null", s the string value and n the numeric value.     *)
(***************************************************************************)
EXTENDS Integers, Sequences, FiniteSets, TLC

VARIABLES
    manifest,       \* the JSON object the endpoint serves: a sequence of [name, url]
    fs,             \* the output directory: filepath -> content
    run,            \* which invocation of main() this is
    pc,             \* position of main(): "fetch", "filter", "pool", "done"
    response,       \* what main's GET of API_URL and the parse of its body came to
    emoji_data,     \* main's emoji_data: [kind, entries]
    valid_emojis,   \* main's valid_emojis: sequence of <<name, url>>
    futures,        \* one record per submitted future, in submission order
    success_count,  \* main's success_count
    log,            \* the log lines of this run: set of <<level, message, name>>
    summary,        \* the "Download complete" line: [logged, succeeded, total]
    prev,           \* what the previous run of main() ended with
    san_name,       \* Name Sanitizer harness: the input name
    san_base,       \* Name Sanitizer harness: <<"unset">> or <<"set", base>>
    val_url,        \* URL harness: the JSON value given as url
    val_valid,      \* URL harness: <<"unset">> or <<"set", is_valid_url(url)>>
    val_path        \* URL harness: <<"unset">> or <<"set", filepath of ("a", url)>>

vars == <<manifest, fs, run, pc, response, emoji_data, valid_emojis, futures,
          success_count, log, summary, prev, san_name, san_base, val_url, val_valid,
          val_path>>

harnessVars == <<san_name, san_base, val_url, val_valid, val_path>>

mainVars == <<manifest, fs, run, pc, response, emoji_data, valid_emojis, futures,
              success_count, log, summary, prev>>

(***************************************************************************)
(* Bounds of the model.                                                    *)
(***************************************************************************)
MaxEntries == 3      \* entries in a small manifest
MaxRuns == 2         \* invocations of main() against the same directory
MaxNameLen == 3      \* length of a name given to the Name Sanitizer harness

(***************************************************************************)
(* Program constants.                                                      *)
(***************************************************************************)
max_workers == 10
OUTPUT_DIR == <<".", "/", "o", "u", "t", "p", "u", "t">>

(***************************************************************************)
(* String helpers: str.startswith, str.rfind, str.isalnum.                 *)
(***************************************************************************)
HTTP == <<"h", "t", "t", "p", ":", "/", "/">>
HTTPS == <<"h", "t", "t", "p", "s", ":", "/", "/">>

startswith(s, p) == Len(s) >= Len(p) /\ SubSeq(s, 1, Len(p)) = p

\* 1-based index of the last occurrence of c in s, 0 when there is none
rfind(s, c) ==
    LET hits == {k \in 1..Len(s) : s[k] = c}
    IN  IF hits = {} THEN 0 ELSE CHOOSE k \in hits : \A m \in hits : m <= k

AsciiLetters == {"a", "b", "c", "d", "e", "f", "g", "h", "i", "j", "m", "n", "o", "p",
                 "s", "t", "u", "v", "x", "A", "Z"}
AsciiDigits == {"0", "1", "2", "9"}
\* code points outside ASCII for which str.isalnum() is true
UnicodeAlnum == {"U+00E9", "U+4E2D", "U+00B2"}

isalnum(c) == c \in AsciiLetters \cup AsciiDigits \cup UnicodeAlnum

(***************************************************************************)
(* is_valid_url (line 29) and the truthiness test `url and` (line 74).     *)
(***************************************************************************)
\* any string that starts with "http"
is_valid_url_lax(url) == url.t = "str" /\ startswith(url.s, <<"h", "t", "t", "p">>)

is_valid_url(url) ==
    url.t = "str" /\ (startswith(url.s, HTTP) \/ startswith(url.s, HTTPS))

truthy(url) ==
    CASE url.t = "null" -> FALSE
      [] url.t = "num" -> url.n # 0
      [] url.t = "str" -> url.s # <<>>

(***************************************************************************)
(* Name Sanitizer (lines 36-38).                                           *)
(***************************************************************************)
keep(c) == isalnum(c) \/ c \in {"-", "_"}

EMOJI == <<"e", "m", "o", "j", "i">>

sanitise_no_fallback(name) == SelectSeq(name, keep)

sanitise(name) ==
    LET sanitised_name == SelectSeq(name, keep)
    IN  IF sanitised_name = <<>> THEN EMOJI ELSE sanitised_name

(***************************************************************************)
(* os.path.splitext(url)[1] or ".png" (line 40), os.path.join (line 42).   *)
(***************************************************************************)
splitext_ext(p) ==
    LET sepIndex == rfind(p, "/")
        dotIndex == rfind(p, ".")
    IN  IF dotIndex > sepIndex
           /\ \E k \in (sepIndex + 1)..(dotIndex - 1) : p[k] # "."
        THEN SubSeq(p, dotIndex, Len(p))
        ELSE <<>>

extension(url) ==
    IF splitext_ext(url) = <<>> THEN <<".", "p", "n", "g">> ELSE splitext_ext(url)

filepath(name, url) == OUTPUT_DIR \o <<"/">> \o sanitise(name) \o extension(url.s)

(***************************************************************************)
(* Inputs: the manifests the endpoint may serve and the directories the    *)
(* first run may find.                                                     *)
(***************************************************************************)
Str(s) == [t |-> "str", s |-> s, n |-> 0]
Num(n) == [t |-> "num", s |-> <<>>, n |-> n]
Null == [t |-> "null", s |-> <<>>, n |-> 0]

\* the entries small manifests are made of
Pool == <<
    [name |-> <<"a">>,
     url |-> Str(<<"h","t","t","p","s",":","/","/","x","/","a",".","p","n","g">>)],
    [name |-> <<"a", "!">>,
     url |-> Str(<<"h","t","t","p",":","/","/","x","/","b",".","p","n","g">>)],
    [name |-> <<"U+1F600">>,
     url |-> Str(<<"h","t","t","p","s",":","/","/","x","/","c">>)],
    [name |-> <<"b">>, url |-> Null],
    [name |-> <<"c">>,
     url |-> Str(<<"n","o","t","-","a","-","u","r","l">>)],
    [name |-> <<"d">>, url |-> Num(42)],
    [name |-> <<"f">>,
     url |-> Str(<<"f","t","p",":","/","/","x">>)],
    [name |-> <<"g">>, url |-> Str(<<>>)]
>>

\* the elements of the index set S in increasing order
RECURSIVE SortedSeq(_)
SortedSeq(S) ==
    IF S = {} THEN <<>>
    ELSE LET m == CHOOSE x \in S : \A y \in S : x <= y
         IN  <<m>> \o SortedSeq(S \ {m})

SmallManifests ==
    {[k \in 1..Cardinality(S) |-> Pool[SortedSeq(S)[k]]] :
        S \in {T \in SUBSET (1..Len(Pool)) : Cardinality(T) <= MaxEntries}}

\* one more valid entry than the pool has workers
BigBatch == max_workers + 1

BigManifest ==
    [i \in 1..BigBatch |->
        [name |-> [j \in 1..i |-> "a"],
         url |-> Str(<<"h","t","t","p","s",":","/","/","x","/","a",".","p","n","g">>)]]

Manifests == SmallManifests \cup {BigManifest}

OLD == <<"old">>            \* content of a file that was there before the first run
PARTIAL == <<"partial">>    \* content of a file whose write failed half way

PathsOf(m) ==
    {filepath(m[k].name, m[k].url) : k \in {j \in 1..Len(m) : is_valid_url(m[j].url)}}

InitialDirs(m) ==
    IF m = BigManifest
    THEN {[p \in PathsOf(m) |-> OLD]}
    ELSE {[p \in S |-> OLD] : S \in SUBSET PathsOf(m)}

NoData == [kind |-> "none", entries |-> <<>>]
NoSummary == [logged |-> FALSE, succeeded |-> 0, total |-> 0]
NoPrev == [ran |-> FALSE, summary |-> NoSummary, items |-> 0, failed |-> 0,
           netfailed |-> {}]

InitMain(m, dir) ==
    /\ manifest = m
    /\ fs = dir
    /\ run = 1
    /\ pc = "fetch"
    /\ response = "none"
    /\ emoji_data = NoData
    /\ valid_emojis = <<>>
    /\ futures = <<>>
    /\ success_count = 0
    /\ log = {}
    /\ summary = NoSummary
    /\ prev = NoPrev

\* the harnesses are not in use
SanIdle == san_name = <<>> /\ san_base = <<"unset">>
ValIdle == val_url = Null /\ val_valid = <<"unset">> /\ val_path = <<"unset">>
HarnessIdle == SanIdle /\ ValIdle

\* the runs of main() on a small manifest
Init ==
    /\ \E m \in SmallManifests : \E dir \in InitialDirs(m) : InitMain(m, dir)
    /\ HarnessIdle

\* one run of main(), on a small manifest or on the batch that overfills the pool
InitPool ==
    /\ \E m \in Manifests : \E dir \in InitialDirs(m) : InitMain(m, dir)
    /\ HarnessIdle

(***************************************************************************)
(* main(), lines 67-72 and 94-95: fetch and parse the manifest.            *)
(***************************************************************************)
\* what the GET of API_URL and the parse of its body can come to
ManifestOutcomes == {"object", "array", "scalar", "badjson", "status", "timeout",
                     "connection"}

\* lines 69-72 raise: requests.get, raise_for_status, response.json, len
fetch_raises_unchecked_status(o) == o \in {"timeout", "connection", "badjson", "scalar"}

fetch_raises(o) == o \in {"timeout", "connection", "status", "badjson", "scalar"}

\* lines 94-95: the handler of main's try block
Fatal(o) ==
    /\ log' = log \cup {<<"ERROR", "An error occurred", <<o>>>>}
    /\ pc' = "done"

FetchManifest ==
    /\ pc = "fetch"
    /\ \E o \in ManifestOutcomes :
          /\ response' = o
          /\ IF fetch_raises(o)
             THEN /\ Fatal(o)
                  /\ UNCHANGED emoji_data
             ELSE /\ emoji_data' = [kind |-> IF o = "array" THEN "array" ELSE "object",
                                    entries |-> IF o = "array" THEN <<>> ELSE manifest]
                  /\ log' = log \cup {<<"INFO", "Found", <<>>>>}
                  /\ pc' = "filter"
    /\ UNCHANGED <<manifest, fs, run, valid_emojis, futures, success_count,
                   summary, prev, harnessVars>>

(***************************************************************************)
(* main(), lines 74-77: build valid_emojis.                                *)
(***************************************************************************)
dispatchable_if_truthy(e) == truthy(e.url)

\* the filter tests the type only
dispatchable_if_string(e) == e.url.t = "str" /\ truthy(e.url)

dispatchable(e) == truthy(e.url) /\ is_valid_url(e.url)

Filter ==
    /\ pc = "filter"
    /\ IF emoji_data.kind = "object"
       THEN /\ valid_emojis' = SelectSeq(emoji_data.entries, dispatchable)
            /\ log' = log \cup {<<"INFO", "Starting concurrent download", <<>>>>}
            /\ success_count' = 0
            /\ pc' = "pool"
       ELSE /\ Fatal("array")                   \* list has no .items()
            /\ UNCHANGED <<valid_emojis, success_count>>
    /\ UNCHANGED <<manifest, fs, run, emoji_data, futures, summary, prev,
                   response, harnessVars>>

(***************************************************************************)
(* ThreadPoolExecutor(max_workers=10), lines 79-83.                        *)
(***************************************************************************)
NewFuture == [st |-> "queued", result |-> FALSE, outcome |-> "none", reason |-> "none",
              gets |-> 0, writes |-> 0, collected |-> FALSE]

InFlightSet == {i \in 1..Len(futures) : futures[i].st \in {"running", "get", "write"}}
inFlight == Cardinality(InFlightSet)

\* a queued call starts when one of the max_workers worker threads is free
worker_available_unbounded(busy) == TRUE

worker_available(busy) == busy < max_workers

\* line 81: executor.submit
Submit ==
    /\ pc = "pool"
    /\ Len(futures) < Len(valid_emojis)
    /\ futures' = Append(futures, NewFuture)
    /\ UNCHANGED <<manifest, fs, run, pc, emoji_data, valid_emojis, success_count, log,
                   summary, prev, response, harnessVars>>

\* a worker thread takes the head of the work queue
Start(i) ==
    /\ futures[i].st = "queued"
    /\ \A j \in 1..(i - 1) : futures[j].st # "queued"
    /\ worker_available(inFlight)
    /\ futures' = [futures EXCEPT ![i].st = "running"]
    /\ UNCHANGED <<manifest, fs, run, pc, emoji_data, valid_emojis,
                   success_count, log, summary, prev, response, harnessVars>>

(***************************************************************************)
(* download_emoji, lines 31-58.                                            *)
(***************************************************************************)
NameOf(i) == valid_emojis[i].name
UrlOf(i) == valid_emojis[i].url
PathOf(i) == filepath(NameOf(i), UrlOf(i))

\* the handler tries the download again
on_exception_retries(f, why) == [f EXCEPT !.st = "get"]

\* lines 56-58: every Exception becomes the return value False
on_exception_propagates(f, why) ==
    [f EXCEPT !.st = "done", !.result = FALSE, !.outcome = "Raised", !.reason = why]

on_exception(f, why) ==
    [f EXCEPT !.st = "done", !.result = FALSE, !.outcome = "Failed", !.reason = why]

\* line 44: os.path.exists(filepath)
exists_never(path, files) == FALSE

exists(path, files) == path \in DOMAIN files

\* lines 33-46: validity warning, file name derivation, existence check
Check(i) ==
    /\ futures[i].st = "running"
    /\ LET warn == IF is_valid_url(UrlOf(i)) THEN {}
                   ELSE {<<"WARNING", "Skipped (not a valid URL)", NameOf(i)>>}
       IN  IF exists(PathOf(i), fs)
           THEN /\ futures' = [futures EXCEPT ![i].st = "done", ![i].result = TRUE,
                                              ![i].outcome = "Skipped"]
                /\ log' = log \cup warn
                            \cup {<<"INFO", "Skipped (already exists)", NameOf(i)>>}
           ELSE /\ futures' = [futures EXCEPT ![i].st = "get"]
                /\ log' = log \cup warn
    /\ UNCHANGED <<manifest, fs, run, pc, emoji_data, valid_emojis,
                   success_count, summary, prev, response, harnessVars>>

\* a request to a server that never answers, made without a timeout
GetOutcomesHung == {}

\* what requests.get(url, timeout=5) and raise_for_status can come to
GetOutcomes == {"ok", "timeout", "connection", "status"}

\* the bytes land somewhere else than filepath
PutFileElsewhere(files, path, content) == files

PutFile(files, path, content) ==
    [p \in DOMAIN files \cup {path} |-> IF p = path THEN content ELSE files[p]]

\* the file is opened before the GET is made
fs_after_get_opened(files, path, o) == PutFile(files, path, PARTIAL)

\* lines 48-49 touch no file, whatever the GET comes to
fs_after_get(files, path, o) == files

\* lines 48-49
Get(i) ==
    /\ futures[i].st = "get"
    /\ \E o \in GetOutcomes :
          LET f == [futures[i] EXCEPT !.gets = @ + 1]
          IN  /\ fs' = fs_after_get(fs, PathOf(i), o)
              /\ IF o = "ok"
                 THEN /\ futures' = [futures EXCEPT ![i] = [f EXCEPT !.st = "write"]]
                      /\ UNCHANGED log
                 ELSE /\ futures' = [futures EXCEPT ![i] = on_exception(f, o)]
                      /\ log' = log \cup {<<"ERROR", "Failed to download", NameOf(i)>>}
    /\ UNCHANGED <<manifest, run, pc, emoji_data, valid_emojis,
                   success_count, summary, prev, response, harnessVars>>

\* what open(filepath, "wb") and f.write can come to
WriteOutcomes == {"ok", "open_error", "write_error"}

\* lines 51-55
Write(i) ==
    /\ futures[i].st = "write"
    /\ \E o \in WriteOutcomes :
          CASE o = "ok" ->
                /\ fs' = PutFile(fs, PathOf(i), UrlOf(i).s)
                /\ futures' = [futures EXCEPT ![i].st = "done", ![i].result = TRUE,
                                              ![i].outcome = "Downloaded",
                                              ![i].writes = @ + 1]
                /\ log' = log \cup {<<"INFO", "Downloaded", NameOf(i)>>}
            [] o = "open_error" ->
                /\ fs' = fs
                /\ futures' = [futures EXCEPT ![i] = on_exception(futures[i], o)]
                /\ log' = log \cup {<<"ERROR", "Failed to download", NameOf(i)>>}
            [] o = "write_error" ->
                /\ fs' = PutFile(fs, PathOf(i), PARTIAL)
                /\ futures' = [futures EXCEPT
                                 ![i] = on_exception([futures[i] EXCEPT !.writes = @ + 1], o)]
                /\ log' = log \cup {<<"ERROR", "Failed to download", NameOf(i)>>}
    /\ UNCHANGED <<manifest, run, pc, emoji_data, valid_emojis,
                   success_count, summary, prev, response, harnessVars>>

(***************************************************************************)
(* main(), lines 85-93: aggregate and report.                              *)
(***************************************************************************)
\* the loop starts before the dict of futures is complete
AllSubmittedNoWait == TRUE

AllSubmitted == Len(futures) = Len(valid_emojis)

\* the with block ends without the loop having seen every future
AllCollectedNoWait == TRUE

\* the as_completed loop has yielded every future
AllCollected == \A i \in 1..Len(futures) : futures[i].collected

\* lines 88-89
count_result_always(cnt, f) == cnt + 1

count_result(cnt, f) == IF f.result THEN cnt + 1 ELSE cnt

\* one iteration of the as_completed loop, lines 85-91
Collect(i) ==
    /\ pc = "pool"
    /\ AllSubmitted
    /\ futures[i].st = "done"
    /\ ~futures[i].collected
    /\ futures' = [futures EXCEPT ![i].collected = TRUE]
    /\ IF futures[i].outcome = "Raised"
       THEN /\ log' = log \cup {<<"ERROR", "Unexpected error", NameOf(i)>>}
            /\ UNCHANGED success_count
       ELSE /\ success_count' = count_result(success_count, futures[i])
            /\ UNCHANGED log
    /\ UNCHANGED <<manifest, fs, run, pc, emoji_data, valid_emojis,
                   summary, prev, response, harnessVars>>

\* line 93: len(emoji_data)
reported_total == Len(emoji_data.entries)

\* the with block ends and line 93 logs the summary
Summary ==
    /\ pc = "pool"
    /\ AllSubmitted
    /\ AllCollected
    /\ summary' = [logged |-> TRUE, succeeded |-> success_count, total |-> reported_total]
    /\ log' = log \cup {<<"INFO", "Download complete", <<>>>>}
    /\ pc' = "done"
    /\ UNCHANGED <<manifest, fs, run, emoji_data, valid_emojis, futures,
                   success_count, prev, response, harnessVars>>

(***************************************************************************)
(* Lines 97-98: the program is run again on the same directory.            *)
(***************************************************************************)
FailedSet == {i \in 1..Len(futures) : ~futures[i].result}

\* the futures whose GET or raise_for_status raised
NetFailedSet ==
    {i \in 1..Len(futures) :
        futures[i].outcome = "Failed"
        /\ futures[i].reason \in {"timeout", "connection", "status"}}

Rerun ==
    /\ pc = "done"
    /\ run < MaxRuns
    /\ run' = run + 1
    /\ prev' = [ran |-> TRUE, summary |-> summary, items |-> Len(valid_emojis),
                failed |-> Cardinality(FailedSet), netfailed |-> NetFailedSet]
    /\ pc' = "fetch"
    /\ response' = "none"
    /\ emoji_data' = NoData
    /\ valid_emojis' = <<>>
    /\ futures' = <<>>
    /\ success_count' = 0
    /\ log' = {}
    /\ summary' = NoSummary
    /\ UNCHANGED <<manifest, fs, harnessVars>>

NextRun ==
    \/ FetchManifest
    \/ Filter
    \/ Submit
    \/ \E i \in 1..Len(futures) : Start(i)
    \/ \E i \in 1..Len(futures) : Check(i)
    \/ \E i \in 1..Len(futures) : Get(i)
    \/ \E i \in 1..Len(futures) : Write(i)
    \/ \E i \in 1..Len(futures) : Collect(i)
    \/ Summary

Next ==
    \/ NextRun
    \/ Rerun

Spec == Init /\ [][Next]_vars

SpecPool == InitPool /\ [][NextRun]_vars

\* one run of main() in which every request completes or times out and main and
\* the worker threads keep being scheduled
SpecRunFair == Init /\ [][NextRun]_vars /\ WF_vars(NextRun)

(***************************************************************************)
(* Name Sanitizer harness: lines 36-38 applied to one name.                *)
(***************************************************************************)
SanAlphabet == {"a", "Z", "9", "-", "_", "!", " ", ".", "U+00E9", "U+1F600"}

SanNames == UNION {[1..n -> SanAlphabet] : n \in 0..MaxNameLen}

SanInit ==
    /\ InitMain(<<>>, [p \in {} |-> OLD])
    /\ san_name \in SanNames
    /\ san_base = <<"unset">>
    /\ ValIdle

SanitiseName ==
    /\ san_base = <<"unset">>
    /\ san_base' = <<"set", sanitise(san_name)>>
    /\ UNCHANGED <<mainVars, san_name, val_url, val_valid, val_path>>

SpecSanitizer == SanInit /\ [][SanitiseName]_vars

(***************************************************************************)
(* URL harness: is_valid_url (lines 28-29) and the file name derivation    *)
(* (lines 36-42) applied to one value.                                     *)
(***************************************************************************)
MaxUrlLen == 8       \* length of a string given to is_valid_url

UrlAlphabet == {"h", "t", "p", "s", ":", "/", "x", "H"}

UrlSeeds == {<<"h","t","t","p","s",":","/","/","x">>,
             <<"h","t","t","p",":","/","/","x">>,
             <<"f","t","p",":","/","/","x">>}

\* s, and s with one character replaced
Mutations(s) == {s} \cup {[s EXCEPT ![k] = c] : k \in 1..Len(s), c \in UrlAlphabet}

ShortLen(m) == IF Len(m) < MaxUrlLen THEN Len(m) ELSE MaxUrlLen

\* the seeds, their one-character mutations and the prefixes of these
UrlStrings ==
    UNION {{SubSeq(m, 1, n) : n \in 0..ShortLen(m)} :
              m \in UNION {Mutations(s) : s \in UrlSeeds}}

\* valid URLs with and without extension, query string and fragment
ExtUrls == {
    <<"h","t","t","p","s",":","/","/","x","/","a",".","p","n","g">>,
    <<"h","t","t","p","s",":","/","/","x","/","c">>,
    <<"h","t","t","p","s",":","/","/","x","/","d",".","g","i","f","?","v","=","1",".","2">>,
    <<"h","t","t","p","s",":","/","/","x","/","a",".","p","n","g","?","v","=","1">>,
    <<"h","t","t","p","s",":","/","/","x","/","a",".","p","n","g","#","f","/","g">>,
    <<"h","t","t","p","s",":","/","/","x",".","i","o">>,
    <<"h","t","t","p",":","/","/","x","/",".","h","i","d","d","e","n">>,
    <<"h","t","t","p",":","/","/","x","/","a",".","t","a","r",".","g","z">>,
    <<"h","t","t","p",":","/","/","x","/","a",".","b","/","c">>}

ValInputs == {Null, Num(0), Num(42)} \cup {Str(s) : s \in UrlStrings \cup ExtUrls}

ValInit ==
    /\ InitMain(<<>>, [p \in {} |-> OLD])
    /\ SanIdle
    /\ val_url \in ValInputs
    /\ val_valid = <<"unset">>
    /\ val_path = <<"unset">>

\* line 29
ValidateUrl ==
    /\ val_valid = <<"unset">>
    /\ val_valid' = <<"set", is_valid_url(val_url)>>
    /\ UNCHANGED <<mainVars, san_name, san_base, val_url, val_path>>

\* lines 36-42 for the name "a"
DeriveFilepath ==
    /\ val_path = <<"unset">>
    /\ val_url.t = "str"
    /\ val_path' = <<"set", filepath(<<"a">>, val_url)>>
    /\ UNCHANGED <<mainVars, san_name, san_base, val_url, val_valid>>

ValNext ==
    \/ ValidateUrl
    \/ DeriveFilepath

SpecUrl == ValInit /\ [][ValNext]_vars

(***************************************************************************)
(* Properties.                                                             *)
(***************************************************************************)
Futures == 1..Len(futures)
Succeeded == {i \in Futures : futures[i].outcome \in {"Downloaded", "Skipped"}}
FailedWith(why) ==
    {i \in Futures : futures[i].outcome = "Failed" /\ futures[i].reason = why}
FatalLogged == \E o \in ManifestOutcomes : <<"ERROR", "An error occurred", <<o>>>> \in log

\* C1: every way a fetch fails (timeout, connection error, non-2xx status, open or
\* write error) ends the call with the return value False, never with a raised
\* exception; the run is never stuck before it ends, and a run whose manifest was
\* parsed ends with every WorkItem submitted, finished and collected and with the
\* summary logged.
FailureIsolation ==
    /\ \A i \in Futures :
          /\ futures[i].outcome # "Raised"
          /\ futures[i].reason # "none" =>
                /\ futures[i].st = "done"
                /\ futures[i].outcome = "Failed"
                /\ ~futures[i].result
    /\ pc # "done" => ENABLED NextRun
    /\ pc = "done" /\ response = "object" =>
          /\ summary.logged
          /\ Len(futures) = Len(valid_emojis)
          /\ \A i \in Futures : futures[i].st = "done" /\ futures[i].collected

\* three valid URLs, one answered 404: the batch completes with succeeded = 2 of 3
OneOfThreeFails ==
    /\ pc = "done"
    /\ summary.logged
    /\ Len(futures) = 3
    /\ Cardinality(FailedWith("status")) = 1
    /\ Cardinality(Succeeded) = 2
    /\ summary.succeeded = 2
    /\ summary.total = 3

\* C2: at most 10 calls of download_emoji have started and not yet returned.
ConcurrencyBound == inFlight <= 10

\* ten calls are in flight while an eleventh waits in the queue
PoolFull ==
    /\ inFlight = 10
    /\ \E i \in Futures : futures[i].st = "queued"

\* C3: success_count is the number of collected futures whose call returned a
\* Downloaded or Skipped outcome, and the summary reports exactly the number of
\* dispatched WorkItems with such an outcome; Failed outcomes are not counted.
AggregationExact ==
    /\ pc = "pool" =>
          success_count = Cardinality({i \in Succeeded : futures[i].collected})
    /\ summary.logged =>
          /\ summary.succeeded = Cardinality(Succeeded)
          /\ Len(futures) = Len(valid_emojis)

\* a summary over a Downloaded, a Skipped and a Failed outcome
MixedSummary ==
    /\ summary.logged
    /\ \E i \in Futures : futures[i].outcome = "Downloaded"
    /\ \E i \in Futures : futures[i].outcome = "Skipped"
    /\ \E i \in Futures : futures[i].outcome = "Failed"

\* C4: the total of the summary is the number of WorkItems (the entries that passed
\* validation).
TotalIsWorkItems == summary.logged => summary.total = Len(valid_emojis)

\* a string that starts with http:// or https://, written out
HttpString(v) ==
    /\ v.t = "str"
    /\ \/ /\ Len(v.s) >= 7
          /\ <<v.s[1], v.s[2], v.s[3], v.s[4], v.s[5], v.s[6], v.s[7]>>
                = <<"h", "t", "t", "p", ":", "/", "/">>
       \/ /\ Len(v.s) >= 8
          /\ <<v.s[1], v.s[2], v.s[3], v.s[4], v.s[5], v.s[6], v.s[7], v.s[8]>>
                = <<"h", "t", "t", "p", "s", ":", "/", "/">>

\* C5: the pairs given to the pool are exactly the manifest entries whose value is a
\* string starting with http:// or https://, and every submitted future is for such
\* a pair.
FilteringInvariant ==
    /\ \A i \in Futures :
          /\ i <= Len(valid_emojis)
          /\ HttpString(valid_emojis[i].url)
          /\ \E k \in 1..Len(manifest) : manifest[k] = valid_emojis[i]
    /\ pc = "pool" \/ summary.logged =>
          {valid_emojis[i] : i \in 1..Len(valid_emojis)}
             = {manifest[k] : k \in {j \in 1..Len(manifest) : HttpString(manifest[j].url)}}

\* a completed run whose manifest held both dispatched and excluded entries
FilteredRun ==
    /\ summary.logged
    /\ Len(futures) >= 1
    /\ Len(manifest) > Len(futures)

\* C6: once the fetch of the manifest has failed, answered a non-2xx status or not
\* parsed as a JSON object, nothing is dispatched, no file is written, no summary
\* is produced, and main ends with the error logged.
FatalStep ==
    response' \notin {"none", "object"} =>
        /\ valid_emojis' = <<>>
        /\ futures' = <<>>
        /\ success_count' = 0
        /\ ~summary'.logged
        /\ fs' = fs
        /\ pc' \in {"filter", "done"}
        /\ pc' = "filter" => response' = "array"
        /\ pc' = "done" => FatalLogged'

FatalManifestPath == [][FatalStep]_vars

\* main has ended after the endpoint answered a non-2xx status
FatalRun ==
    /\ response = "status"
    /\ pc = "done"
    /\ FatalLogged

SkipStep ==
    \A i \in Futures :
        /\ futures[i].st = "running"
        /\ PathOf(i) \in DOMAIN fs
        /\ i <= Len(futures')
        /\ futures'[i].st # "running"
        => /\ futures'[i].st = "done"
           /\ futures'[i].result
           /\ futures'[i].outcome = "Skipped"
           /\ futures'[i].gets = 0
           /\ futures'[i].writes = 0
           /\ fs' = fs

SkipIfExists == [][SkipStep]_vars

\* a call has returned Skipped
SomeSkipped ==
    \E i \in Futures :
        /\ futures[i].outcome = "Skipped"
        /\ PathOf(i) \in DOMAIN fs

\* C9: no step replaces the content of a file that is in the output directory.
NoOverwrite == [][\A p \in DOMAIN fs : p \in DOMAIN fs' /\ fs'[p] = fs[p]]_vars

\* the characters of [A-Za-z0-9_-] that SanAlphabet holds
AsciiAllowed == {"a", "Z", "9", "-", "_"}

AlnumAllowed == {"a", "Z", "9", "-", "_", "U+00E9"}

ValidatorIff ==
    val_valid[1] = "set" => (val_valid[2] <=> HttpString(val_url))

\* ftp://x has been refused
FtpRefused ==
    /\ val_url = Str(<<"f", "t", "p", ":", "/", "/", "x">>)
    /\ val_valid = <<"set", FALSE>>

\* index of the first character of s that is in cs, Len(s) + 1 when there is none
FirstOf(s, cs) ==
    LET hits == {k \in 1..Len(s) : s[k] \in cs}
    IN  IF hits = {} THEN Len(s) + 1 ELSE CHOOSE k \in hits : \A m \in hits : k <= m

\* the path component of scheme://authority/path?query#fragment
UrlPath(u) ==
    LET cut == FirstOf(u, {"?", "#"})
        colon == FirstOf(u, {":"})
        slashes == {k \in (colon + 3)..(cut - 1) : u[k] = "/"}
    IN  IF slashes = {} THEN <<>>
        ELSE SubSeq(u, CHOOSE k \in slashes : \A m \in slashes : k <= m, cut - 1)

\* C12: the file name's extension is the extension of the URL's path component
\* alone, ".png" when the path has none, and the filepath is the output directory
\* joined with the sanitised name and that extension.
ExtensionFromPath ==
    val_path[1] = "set" /\ HttpString(val_url) =>
        val_path[2] = <<".", "/", "o", "u", "t", "p", "u", "t", "/", "a">>
                         \o (IF splitext_ext(UrlPath(val_url.s)) = <<>>
                             THEN <<".", "p", "n", "g">>
                             ELSE splitext_ext(UrlPath(val_url.s)))

\* the outcome lines the log holds for a name
OutcomeLines(name) ==
    {l \in log : l[3] = name
                 /\ l[2] \in {"Downloaded", "Skipped (already exists)",
                              "Failed to download"}}

OutcomeLine(o) ==
    CASE o = "Downloaded" -> <<"INFO", "Downloaded">>
      [] o = "Skipped" -> <<"INFO", "Skipped (already exists)">>
      [] o = "Failed" -> <<"ERROR", "Failed to download">>
      [] OTHER -> <<"", "">>

\* C13: a call produces no outcome before it returns and exactly one when it has
\* returned, a Success, Skipped or Failed logged under its own WorkItem's name; the
\* loop collects only returned futures, and when the summary is logged every
\* WorkItem has been submitted, has returned its outcome and has been collected.
ExactlyOnce ==
    /\ \A i \in Futures :
          /\ futures[i].collected => futures[i].st = "done"
          /\ futures[i].st # "done" =>
                futures[i].outcome = "none" /\ OutcomeLines(NameOf(i)) = {}
          /\ futures[i].st = "done" =>
                /\ futures[i].outcome \in {"Downloaded", "Skipped", "Failed"}
                /\ OutcomeLines(NameOf(i))
                      = {<<OutcomeLine(futures[i].outcome)[1],
                           OutcomeLine(futures[i].outcome)[2], NameOf(i)>>}
    /\ summary.logged =>
          /\ Len(futures) = Len(valid_emojis)
          /\ \A i \in Futures : futures[i].st = "done" /\ futures[i].collected

\* a completed run of three WorkItems that ended Failed, Skipped and Downloaded
ThreeOutcomesCollected ==
    /\ summary.logged
    /\ Len(futures) = 3
    /\ futures[1].outcome = "Failed"
    /\ futures[2].outcome = "Skipped"
    /\ futures[3].outcome = "Downloaded"
    /\ \A i \in Futures : futures[i].collected

\* C14: a filepath that two WorkItems of a run derive is written at most once in
\* that run (the second call to reach the existence check finds the file).
CollisionWrittenOnce ==
    \A i, j \in Futures :
        i # j /\ PathOf(i) = PathOf(j) => futures[i].writes + futures[j].writes <= 1

\* C15: the summary is logged only when every WorkItem has been submitted, has
\* returned and has been collected; once it is logged no call is in flight, and
\* no step changes a future or a file.
SummaryStep ==
    summary'.logged =>
        /\ pc' = "done"
        /\ Len(futures') = Len(valid_emojis')
        /\ \A i \in 1..Len(futures') :
              futures'[i].st = "done" /\ futures'[i].collected
        /\ summary.logged => futures' = futures /\ fs' = fs

SummaryLast == [][SummaryStep]_vars

\* the summary of a run in which two calls wrote their files
SummaryAfterWrites ==
    /\ summary.logged
    /\ Len(futures) = 2
    /\ \A i \in Futures : futures[i].outcome = "Downloaded" /\ futures[i].writes = 1

\* C16: a call issues at most one GET and at most one file write, the write only
\* after the GET; a call that has returned stays returned with the outcome it
\* had: a Failed item is not attempted again in the run.
NoRetryStep ==
    /\ \A i \in 1..Len(futures') :
          /\ futures'[i].gets <= 1
          /\ futures'[i].writes <= futures'[i].gets
    /\ \A i \in Futures :
          futures[i].st = "done" /\ run' = run =>
              /\ i <= Len(futures')
              /\ [futures'[i] EXCEPT !.collected = FALSE]
                    = [futures[i] EXCEPT !.collected = FALSE]

NoRetries == [][NoRetryStep]_vars

\* a run has ended with an item whose one GET met a connection error
FailedOnceFinal ==
    /\ summary.logged
    /\ \E i \in Futures :
          /\ futures[i].outcome = "Failed"
          /\ futures[i].reason = "connection"
          /\ futures[i].gets = 1
          /\ futures[i].writes = 0

\* C17: every run ends, with the summary or with the fatal manifest error logged.
Termination == <>(pc = "done" /\ (summary.logged \/ FatalLogged))

\* a run has ended although the GET of one item timed out
EndedAfterTimeout ==
    /\ pc = "done"
    /\ summary.logged
    /\ \E i \in Futures : futures[i].outcome = "Failed" /\ futures[i].reason = "timeout"

Warnings == {l \in log : l[1] = "WARNING"}

\* C18: when a run is complete, a warning has been logged for every manifest entry
\* that was excluded from dispatch.
ExcludedAreWarned ==
    summary.logged =>
        \A k \in 1..Len(manifest) :
            ~HttpString(manifest[k].url) =>
                \E l \in Warnings : l[3] = manifest[k].name

\* C19: no run of main logs the "not a valid URL" warning of download_emoji: every
\* pair that the filter of line 74 lets through passes is_valid_url in the call,
\* and the truthiness test of the filter drops no entry that is_valid_url accepts.
WarningUnreachable ==
    /\ Warnings = {}
    /\ \A i \in Futures : is_valid_url(UrlOf(i))
    /\ pc \in {"pool", "done"} /\ response = "object" =>
          \A k \in 1..Len(manifest) :
              is_valid_url(manifest[k].url) =>
                  \E i \in 1..Len(valid_emojis) : valid_emojis[i] = manifest[k]

\* a call has passed line 33 for the one valid entry of a manifest of three
CheckedWithoutWarning ==
    /\ Len(manifest) = 3
    /\ Len(valid_emojis) = 1
    /\ Len(futures) = 1
    /\ futures[1].st = "get"
    /\ Warnings = {}

\* C20 as stated: an item whose fetch failed at the network stage in the previous
\* run is not reported Skipped by the next run.
NetFailureRefetched ==
    run >= 2 =>
        \A i \in prev.netfailed :
            i \in Futures => futures[i].outcome # "Skipped"

\* the next run fetches again what failed at the network stage, unless another
\* WorkItem derives the same filepath
RefetchedUnlessShared ==
    run >= 2 =>
        \A i \in prev.netfailed :
            /\ i \in Futures
            /\ futures[i].st \in {"get", "write", "done"}
            /\ \A j \in 1..Len(valid_emojis) : j # i => PathOf(j) # PathOf(i)
            => /\ futures[i].outcome # "Skipped"
               /\ futures[i].st # "get" => futures[i].gets = 1

\* C20 as amended: the step in which a GET fails leaves every file as it was, and
\* the next run finds the file of such an item absent and issues its GET again,
\* unless another WorkItem that derives the same filepath has written the file.
NetFailStep ==
    \A i \in Futures :
        /\ futures[i].st = "get"
        /\ i <= Len(futures')
        /\ futures'[i].st = "done"
        => fs' = fs

NetFailureLeavesNoFile == []RefetchedUnlessShared /\ [][NetFailStep]_vars

\* the second run has issued the GET again for an item whose GET failed in the first
RefetchedInSecondRun ==
    /\ run = 2
    /\ \E i \in prev.netfailed :
          /\ i \in Futures
          /\ futures[i].gets = 1
          /\ futures[i].outcome = "Downloaded"
====
